---------------------------- MODULE Spec2Model ----------------------------
(***************************************************************************)
(* A model of the contact book backend: the contact repository             *)
(* (src/src/repository/contacts.py), the user repository                   *)
(* (src/src/repository/users.py), the token service                        *)
(* (src/src/services/auth.py) and the tables of src/src/database/models.py.*)
(*                                                                         *)
(* Text (names, e-mail addresses) is a sequence of character codes, so     *)
(* that the LIKE filters are substring searches.  A table is the sequence  *)
(* of its rows in storage order.                                           *)
(***************************************************************************)
EXTENDS Integers, Sequences, FiniteSets, TLC

VARIABLES
    contacts,       \* table "contacts": the sequence of its rows
    nextContactId,  \* the next value of the contacts.id primary key
    cres,           \* what the last contact-repository call returned
    today,          \* date.today(): the calendar date of the wall clock
    users,          \* table "users": the sequence of its rows
    nextUserId,     \* the next value of the users.id primary key
    now,            \* the wall clock, in whole seconds
    issued,         \* the tokens the service has signed so far
    ares,           \* what the last auth request returned
    calls           \* the refresh requests in flight, by worker

vars ==
    <<contacts, nextContactId, cres, today, users, nextUserId, now, issued, ares,
      calls>>

contactVars == <<contacts, nextContactId, cres, today>>
authVars == <<users, nextUserId, now, issued, ares, calls>>

(***************************************************************************)
(* Bounds of the model.                                                    *)
(***************************************************************************)
NumOwners == 2
MaxContacts == 2
MaxDays == 30
MaxUsers == 2
MaxClock == 2
\* settings.JWT_EXPIRATION_SECONDS and settings.REFRESH_TOKEN_EXPIRE_MINUTES
\* (in seconds), scaled to the clock of the model
AccessTTL == 1
RefreshTTL == 1
\* timedelta(days = 7), in seconds
EmailTokenTTL == 604800

Owners == 1..NumOwners

\* the window lengths asked for: the default 7, short ones, a month and
\* lengths close to a whole year
Windows == {0, 1, 7, MaxDays, 330, 364}

\* character codes; texts are sequences of them
FirstNames == {<<1>>, <<1, 2>>}
LastNames == {<<3>>, <<3, 4>>}
Emails == {<<5>>, <<5, 6>>, <<7>>}
\* a text filter of get_contacts: <<>> stands for None and for ""
Patterns == {<<>>, <<2>>, <<4>>, <<6>>}

Range(s) == {s[i] : i \in 1..Len(s)}

Min(a, b) == IF a <= b THEN a ELSE b

(***************************************************************************)
(* Calendar: datetime.date and date + timedelta(days = n), n >= 0.         *)
(***************************************************************************)
IsLeap(y) == (y % 4 = 0 /\ y % 100 # 0) \/ y % 400 = 0

DaysInMonth(y, m) ==
    IF m = 2 THEN (IF IsLeap(y) THEN 29 ELSE 28)
    ELSE IF m \in {4, 6, 9, 11} THEN 30 ELSE 31

RECURSIVE DaysBeforeMonth(_, _)
DaysBeforeMonth(y, m) ==
    IF m = 1 THEN 0 ELSE DaysBeforeMonth(y, m - 1) + DaysInMonth(y, m - 1)

YearLen(y) == IF IsLeap(y) THEN 366 ELSE 365

Ordinal(dt) == DaysBeforeMonth(dt.y, dt.m) + dt.d

DateOfOrdinal(y, n) ==
    LET m == CHOOSE k \in 1..12 :
                 /\ DaysBeforeMonth(y, k) < n
                 /\ n <= DaysBeforeMonth(y, k) + DaysInMonth(y, k)
    IN  [y |-> y, m |-> m, d |-> n - DaysBeforeMonth(y, m)]

RECURSIVE AddDays(_, _)
AddDays(dt, n) ==
    LET o == Ordinal(dt) + n
    IN  IF o <= YearLen(dt.y)
        THEN DateOfOrdinal(dt.y, o)
        ELSE AddDays([y |-> dt.y + 1, m |-> 1, d |-> 1], o - YearLen(dt.y) - 1)

NoDate == [y |-> 0, m |-> 0, d |-> 0]

Years == {2023, 2024}

AllDates ==
    {dt \in [y : Years, m : 1..12, d : 1..31] : dt.d <= DaysInMonth(dt.y, dt.m)}

(***************************************************************************)
(* Contact rows.  A birthday is kept as the (month, day) that              *)
(* extract("month", ...) and extract("day", ...) read from the Date        *)
(* column; phone_number, additional_info and the two timestamps are        *)
(* stored and returned but read by no query, and are left out.             *)
(***************************************************************************)
Contact(id, user_id, first_name, last_name, email, birthday) ==
    [id |-> id, user_id |-> user_id, first_name |-> first_name,
     last_name |-> last_name, email |-> email, birthday |-> birthday]

\* ContactBase: the fields of a create or update request
ContactBase(first_name, last_name, email, birthday) ==
    [first_name |-> first_name, last_name |-> last_name,
     email |-> email, birthday |-> birthday]

ContactResult(op, user, email, target, status, rows) ==
    [op |-> op, user |-> user, email |-> email, target |-> target,
     status |-> status, rows |-> rows]

\* Contact.email.like(f"%{p}%"): p occurs in s
Like(s, p) ==
    \E i \in 0..(Len(s) - Len(p)) : SubSeq(s, i + 1, i + Len(p)) = p

\* UniqueConstraint("email", "user_id") and Column(email, unique=True):
\* may a row with this e-mail and owner be stored beside the rows `others`?
UniqueOk(others, email, user_id) ==
    /\ \A c \in Range(others) : ~(c.email = email /\ c.user_id = user_id)
    /\ \A c \in Range(others) : c.email # email

RowsById(contact_id, user) ==
    SelectSeq(contacts, LAMBDA c : c.id = contact_id /\ c.user_id = user)

(***************************************************************************)
(* ContactRepository                                                       *)
(***************************************************************************)
\* the rows get_contacts selects: filter_by(user), the LIKE filters that
\* are set, then offset and limit
ContactsQuery(user, skip, limit, first_name, last_name, email) ==
    LET rows == SelectSeq(contacts, LAMBDA c :
                    /\ c.user_id = user
                    /\ (first_name # <<>> => Like(c.first_name, first_name))
                    /\ (last_name # <<>> => Like(c.last_name, last_name))
                    /\ (email # <<>> => Like(c.email, email)))
    IN  SubSeq(rows, skip + 1, Min(Len(rows), skip + limit))

get_contacts(user, skip, limit, first_name, last_name, email) ==
    /\ cres' = ContactResult("get_contacts", user, <<>>, NoDate, "ok",
                   ContactsQuery(user, skip, limit, first_name, last_name, email))
    /\ UNCHANGED <<contacts, nextContactId, today>>
    /\ UNCHANGED authVars

get_contact_by_id(contact_id, user) ==
    /\ cres' = ContactResult("get_contact_by_id", user, <<>>, NoDate,
                   IF RowsById(contact_id, user) = <<>> THEN "None" ELSE "ok",
                   RowsById(contact_id, user))
    /\ UNCHANGED <<contacts, nextContactId, today>>
    /\ UNCHANGED authVars

create_contact(body, user) ==
    /\ nextContactId <= MaxContacts
    /\ IF UniqueOk(contacts, body.email, user)
       THEN LET contact == Contact(nextContactId, user, body.first_name,
                               body.last_name, body.email, body.birthday)
            IN  /\ contacts' = Append(contacts, contact)
                /\ nextContactId' = nextContactId + 1
                /\ cres' = ContactResult("create_contact", user, body.email,
                               NoDate, "ok", <<contact>>)
       ELSE \* the commit raises IntegrityError; nothing is stored
            /\ cres' = ContactResult("create_contact", user, body.email,
                           NoDate, "IntegrityError", <<>>)
            /\ UNCHANGED <<contacts, nextContactId>>
    /\ UNCHANGED today
    /\ UNCHANGED authVars

update_contact(contact_id, body, user) ==
    /\ IF RowsById(contact_id, user) = <<>>
       THEN /\ cres' = ContactResult("update_contact", user, body.email,
                           NoDate, "None", <<>>)
            /\ UNCHANGED contacts
       ELSE LET others == SelectSeq(contacts, LAMBDA c : c.id # contact_id)
                contact == Contact(contact_id, user, body.first_name,
                               body.last_name, body.email, body.birthday)
            IN  IF UniqueOk(others, body.email, user)
                THEN /\ contacts' = [i \in 1..Len(contacts) |->
                                        IF contacts[i].id = contact_id
                                        THEN contact ELSE contacts[i]]
                     /\ cres' = ContactResult("update_contact", user,
                                    body.email, NoDate, "ok",
                                    <<contact>>)
                ELSE /\ cres' = ContactResult("update_contact", user,
                                    body.email, NoDate,
                                    "IntegrityError", <<>>)
                     /\ UNCHANGED contacts
    /\ UNCHANGED <<nextContactId, today>>
    /\ UNCHANGED authVars

remove_contact(contact_id, user) ==
    /\ IF RowsById(contact_id, user) = <<>>
       THEN /\ cres' = ContactResult("remove_contact", user, <<>>, NoDate,
                            "None", <<>>)
            /\ UNCHANGED contacts
       ELSE /\ contacts' = SelectSeq(contacts, LAMBDA c : c.id # contact_id)
            /\ cres' = ContactResult("remove_contact", user, <<>>, NoDate,
                            "ok", RowsById(contact_id, user))
    /\ UNCHANGED <<nextContactId, today>>
    /\ UNCHANGED authVars

\* the filter of the branch "query stays within the same year"
SameYearMatch(b, today_, target) ==
    \/ b.m = today_.m /\ b.d >= today_.d
    \/ b.m = target.m /\ b.d <= target.d
    \/ b.m > today_.m /\ b.m < target.m

\* a slip in the year-wrap filter: the months between the two dates taken
\* as in the same-year branch
YearWrapMatch_OneRange(b, today_, target) ==
    \/ b.m = today_.m /\ b.d >= today_.d
    \/ b.m = target.m /\ b.d <= target.d
    \/ b.m > today_.m /\ b.m < target.m

\* the filter of the branch "range crosses into the next year"
YearWrapMatch(b, today_, target) ==
    \/ b.m = today_.m /\ b.d >= today_.d
    \/ b.m > today_.m
    \/ b.m = target.m /\ b.d <= target.d
    \/ b.m < target.m

\* the statement get_upcoming_birthdays executes: the same-year branch
\* selects with filter_by(user = user), the other branch without it
UpcomingRows(user, target_date) ==
    IF target_date.y = today.y
    THEN SelectSeq(contacts, LAMBDA c :
             c.user_id = user /\ SameYearMatch(c.birthday, today, target_date))
    ELSE SelectSeq(contacts, LAMBDA c :
             YearWrapMatch(c.birthday, today, target_date))

get_upcoming_birthdays(user, days) ==
    LET target_date == AddDays(today, days)
    IN  /\ cres' = ContactResult("get_upcoming_birthdays", user, <<>>,
                       target_date, "ok", UpcomingRows(user, target_date))
        /\ UNCHANGED <<contacts, nextContactId, today>>
        /\ UNCHANGED authVars

(***************************************************************************)
(* Users, passwords and tokens                                             *)
(***************************************************************************)
UserRole == {"user", "moderator", "admin"}
Usernames == {"u1", "u2", "u3"}
UserEmails == {"m1", "m2", "m3"}
Passwords == {"p1", "p2"}
\* the random salts of bcrypt
Salts == {"s1", "s2"}

\* UserCreate: the fields of a registration request
UserCreate(username, email, password, role) ==
    [username |-> username, email |-> email, password |-> password,
     role |-> role]

\* the avatar the registration derives from the e-mail address
Avatar(email) == <<"gravatar", email>>

\* a row of the table "users" as create_user stores it: confirmed and
\* refresh_token take their column defaults
NoToken ==
    [kind |-> "none", sig |-> "", sub |-> "", iat |-> 0, exp |-> 0,
     token_type |-> ""]

\* a slip: the row is stored as confirmed
NewUser_Confirmed(id, body, avatar) ==
    [id |-> id, username |-> body.username, email |-> body.email,
     hashed_password |-> body.password, avatar |-> avatar,
     confirmed |-> TRUE, role |-> body.role, refresh_token |-> NoToken]

NewUser(id, body, avatar) ==
    [id |-> id, username |-> body.username, email |-> body.email,
     hashed_password |-> body.password, avatar |-> avatar,
     confirmed |-> FALSE, role |-> body.role, refresh_token |-> NoToken]

\* Hash: a bcrypt digest carries its salt and verifies the one plaintext it
\* was made from
get_password_hash(password, salt) == [plain |-> password, salt |-> salt]

\* a slip: the digest is compared with itself
verify_password_Any(plain_password, hashed_password) ==
    hashed_password.plain = hashed_password.plain

verify_password(plain_password, hashed_password) ==
    hashed_password.plain = plain_password

(***************************************************************************)
(* A token is the signed claim set.  jwt.encode writes iat and exp as      *)
(* whole seconds and signs deterministically, so two tokens are the same   *)
(* string exactly when their claims are equal.  token_type "absent" is a   *)
(* claim set without that claim.                                           *)
(***************************************************************************)
Jwt(sub, iat, exp, token_type) ==
    [kind |-> "jwt", sig |-> "ok", sub |-> sub, iat |-> iat, exp |-> exp,
     token_type |-> token_type]

\* a string that is no JWT, such as "invalid_refresh_token"
Garbage ==
    [kind |-> "garbage", sig |-> "", sub |-> "", iat |-> 0, exp |-> 0,
     token_type |-> ""]

create_token(sub, expires_delta, token_type) ==
    Jwt(sub, now, now + expires_delta, token_type)

create_access_token(sub) == create_token(sub, AccessTTL, "access")

create_refresh_token(sub) == create_token(sub, RefreshTTL, "refresh")

create_email_token(sub) == Jwt(sub, now, now + EmailTokenTTL, "absent")

\* jwt.decode returns the payload: the token is a JWT, its signature is
\* that of the secret, and it has not expired; else it raises JWTError
JwtDecodes(token) ==
    /\ token.kind = "jwt"
    /\ token.sig = "ok"
    /\ ~(token.exp < now)

UsersByUsername(username) ==
    SelectSeq(users, LAMBDA u : u.username = username)

UsersByEmail(email) == SelectSeq(users, LAMBDA u : u.email = email)

UsersById(user_id) == SelectSeq(users, LAMBDA u : u.id = user_id)

Lookup(kind, rows) ==
    [kind |-> kind, id |-> IF rows = <<>> THEN 0 ELSE rows[1].id]

\* a slip: the token_type claim is not looked at
get_current_user_Untyped(token) ==
    IF ~JwtDecodes(token) THEN Lookup("401", <<>>)
    ELSE IF UsersByUsername(token.sub) = <<>> THEN Lookup("401", <<>>)
    ELSE Lookup("user", UsersByUsername(token.sub))

\* get_current_user: the user of a bearer token, 401, or a KeyError that
\* the handler does not catch (a payload without the token_type claim)
get_current_user(token) ==
    IF ~JwtDecodes(token) THEN Lookup("401", <<>>)
    ELSE IF token.token_type = "absent" THEN Lookup("KeyError", <<>>)
    ELSE IF token.token_type # "access" THEN Lookup("401", <<>>)
    ELSE IF UsersByUsername(token.sub) = <<>> THEN Lookup("401", <<>>)
    ELSE Lookup("user", UsersByUsername(token.sub))

\* the class the name User is bound to in services/auth.py
\* (from src.schemas import User), and the classes mapped to a table
AuthUserClass == "schemas.User"
MappedClasses == {"models.User", "models.Contact"}

\* db.query(User).filter(User.username == username,
\*                       User.refresh_token == refresh_token).first()
\* schemas.User is a pydantic model: it is no mapped class and has no
\* refresh_token attribute, so building the query raises
QueryUserByToken(cls, username, refresh_token) ==
    IF cls \in MappedClasses
    THEN LET rows == SelectSeq(users, LAMBDA u :
                         u.username = username /\ u.refresh_token = refresh_token)
         IN  Lookup(IF rows = <<>> THEN "None" ELSE "user", rows)
    ELSE Lookup("error", <<>>)

\* verify_refresh_token: a user, None, or an exception other than JWTError
verify_refresh_token(refresh_token) ==
    IF ~JwtDecodes(refresh_token) THEN Lookup("None", <<>>)
    ELSE IF refresh_token.token_type # "refresh" THEN Lookup("None", <<>>)
    ELSE QueryUserByToken(AuthUserClass, refresh_token.sub, refresh_token)

\* get_email_from_token: the sub claim of any token that decodes
get_email_from_token(token) ==
    IF JwtDecodes(token) THEN [kind |-> "email", email |-> token.sub]
    ELSE [kind |-> "422", email |-> ""]

(***************************************************************************)
(* UserRepository                                                          *)
(***************************************************************************)
\* Column(username, unique=True), Column(email, unique=True)
UserUniqueOk(username, email) ==
    /\ \A u \in Range(users) : u.username # username
    /\ \A u \in Range(users) : u.email # email

\* the table after UserRepository.refresh_token(user_id, token)
RefreshTokenRows(user_id, token) ==
    [i \in 1..Len(users) |->
        IF users[i].id = user_id
        THEN [users[i] EXCEPT !.refresh_token = token] ELSE users[i]]

\* a slip: the flag is flipped
ConfirmedEmailRows_Toggle(email) ==
    [i \in 1..Len(users) |->
        IF users[i].email = email
        THEN [users[i] EXCEPT !.confirmed = ~users[i].confirmed] ELSE users[i]]

\* the table after UserRepository.confirmed_email(email)
ConfirmedEmailRows(email) ==
    [i \in 1..Len(users) |->
        IF users[i].email = email
        THEN [users[i] EXCEPT !.confirmed = TRUE] ELSE users[i]]

\* a slip: the response model carries the digest
ResponseUserKeys_WithHash ==
    {"id", "username", "email", "avatar", "role", "hashed_password"}

\* schemas.User, the response model of a registration
ResponseUserKeys == {"id", "username", "email", "avatar", "role"}

TokenKeys == {"access_token", "refresh_token", "token_type"}

\* the outcome of a request: the second it was served in, the request's
\* inputs, the response's status and detail, the two tokens of a token
\* response, and the response's keys
AuthResult(op, status, detail, username, password, presented, access, refresh, keys) ==
    [op |-> op, at |-> now, status |-> status, detail |-> detail,
     username |-> username, email |-> "", password |-> password,
     presented |-> presented, access_token |-> access,
     refresh_token |-> refresh, keys |-> keys]

NoAuthResult ==
    [op |-> "none", at |-> 0, status |-> 0, detail |-> "", username |-> "",
     email |-> "", password |-> "", presented |-> NoToken,
     access_token |-> NoToken, refresh_token |-> NoToken, keys |-> {}]

\* the workers that serve requests side by side, and a worker with no
\* refresh request in hand
Workers == {"w1", "w2"}

NoCall ==
    [pc |-> "idle", presented |-> NoToken, stored |-> FALSE,
     writes_before |-> 0, user_id |-> 0, status |-> 0,
     access_token |-> NoToken, refresh_token |-> NoToken, order |-> 0]

AuthIdle ==
    /\ users = <<>>
    /\ nextUserId = 1
    /\ now = 0
    /\ issued = {}
    /\ ares = NoAuthResult
    /\ calls = [w \in Workers |-> NoCall]

(***************************************************************************)
(* The contact book under CRUD traffic of several owners.                  *)
(***************************************************************************)
NoContactResult == ContactResult("none", 0, <<>>, NoDate, "ok", <<>>)

ContactBirthdays == {[m |-> 1, d |-> 2], [m |-> 3, d |-> 20]}
ContactTodays == {[y |-> 2024, m |-> 3, d |-> 1], [y |-> 2024, m |-> 12, d |-> 28]}
ContactWindows == {7}
AuthToday == [y |-> 2024, m |-> 3, d |-> 1]

Bodies ==
    {ContactBase(f, l, e, b) :
        f \in FirstNames, l \in LastNames, e \in Emails, b \in ContactBirthdays}

InitContacts ==
    /\ contacts = <<>>
    /\ nextContactId = 1
    /\ cres = NoContactResult
    /\ today \in ContactTodays
    /\ AuthIdle

NextContacts ==
    \/ \E user \in Owners, skip \in {0, 1}, limit \in {1, 10},
          f \in Patterns \cap {<<>>, <<2>>}, l \in Patterns \cap {<<>>, <<4>>},
          e \in Patterns \cap {<<>>, <<6>>} :
            get_contacts(user, skip, limit, f, l, e)
    \/ \E contact_id \in 1..MaxContacts, user \in Owners :
            get_contact_by_id(contact_id, user)
    \/ \E body \in Bodies, user \in Owners : create_contact(body, user)
    \/ \E contact_id \in 1..MaxContacts, body \in Bodies, user \in Owners :
            update_contact(contact_id, body, user)
    \/ \E contact_id \in 1..MaxContacts, user \in Owners :
            remove_contact(contact_id, user)
    \/ \E user \in Owners, days \in ContactWindows :
            get_upcoming_birthdays(user, days)

SpecContacts == InitContacts /\ [][NextContacts]_vars

(***************************************************************************)
(* The birthday query over a contact book that holds every birthday of     *)
(* the calendar for owner 1 and a few birthdays for every other owner,     *)
(* asked on every day of two years.                                        *)
(***************************************************************************)
OtherBirthdays == <<[m |-> 1, d |-> 2], [m |-> 3, d |-> 5], [m |-> 6, d |-> 1]>>

CalendarRow(i) ==
    IF i <= 366
    THEN LET dt == DateOfOrdinal(2024, i)
         IN  Contact(i, 1, <<1>>, <<3>>, <<i>>, [m |-> dt.m, d |-> dt.d])
    ELSE LET k == i - 366 - 1
         IN  Contact(i, 2 + (k \div Len(OtherBirthdays)), <<1>>, <<3>>, <<i>>,
                 OtherBirthdays[1 + (k % Len(OtherBirthdays))])

CalendarStore ==
    [i \in 1..(366 + (NumOwners - 1) * Len(OtherBirthdays)) |-> CalendarRow(i)]

InitBirthdays ==
    /\ contacts = CalendarStore
    /\ nextContactId = Len(CalendarStore) + 1
    /\ cres = NoContactResult
    /\ today \in AllDates
    /\ AuthIdle

NextBirthdays ==
    \E user \in Owners, days \in Windows : get_upcoming_birthdays(user, days)

SpecBirthdays == InitBirthdays /\ [][NextBirthdays]_vars

(***************************************************************************)
(* The session flow: the requests of the auth routes and the clock.        *)
(***************************************************************************)
\* the tokens a client can present: those the service has signed, a stored
\* refresh token signed with another key, and a string that is no JWT
Presentable ==
    issued
    \cup {[u.refresh_token EXCEPT !.sig = "bad"] :
              u \in {x \in Range(users) : x.refresh_token # NoToken}}
    \cup {Garbage}

Fail(op, status, detail, username, password, presented) ==
    /\ ares' = AuthResult(op, status, detail, username, password, presented,
                   NoToken, NoToken, {"detail"})
    /\ UNCHANGED <<users, nextUserId, now, issued>>

\* a failed registration
FailRegister(status, detail, body) ==
    /\ ares' = [AuthResult("register", status, detail, body.username,
                    body.password, NoToken, NoToken, NoToken, {"detail"})
                    EXCEPT !.email = body.email]
    /\ UNCHANGED <<users, nextUserId, now, issued>>

\* Register: 409 when the e-mail or the username is taken; else hash the
\* password, create the user and send the confirmation token
Register(body, salt) ==
    /\ IF UsersByEmail(body.email) # <<>>
       THEN FailRegister(409, "User with this email already exists", body)
       ELSE IF UsersByUsername(body.username) # <<>>
       THEN FailRegister(409, "User with this username already exists", body)
       ELSE IF ~UserUniqueOk(body.username, body.email)
       THEN FailRegister(500, "Internal Server Error", body)
       ELSE /\ nextUserId <= MaxUsers
            /\ users' = Append(users,
                   NewUser(nextUserId,
                       [body EXCEPT !.password =
                           get_password_hash(body.password, salt)],
                       Avatar(body.email)))
            /\ nextUserId' = nextUserId + 1
            /\ issued' = issued \cup {create_email_token(body.email)}
            /\ ares' = [AuthResult("register", 201, "", body.username,
                            body.password, NoToken, NoToken, NoToken,
                            ResponseUserKeys)
                            EXCEPT !.email = body.email]
            /\ UNCHANGED now
    /\ UNCHANGED <<contactVars, calls>>

\* Email confirmation: the e-mail of the token; 400 when no user has it;
\* nothing to do when the user is confirmed; else confirmed_email(email)
ConfirmEmail(token) ==
    /\ LET got == get_email_from_token(token)
       IN  IF got.kind = "422"
           THEN Fail("confirm_email", 422, "Token is not correct", "", "", token)
           ELSE IF UsersByEmail(got.email) = <<>>
           THEN Fail("confirm_email", 400, "Verification error", "", "", token)
           ELSE /\ users' = ConfirmedEmailRows(got.email)
                /\ ares' = AuthResult("confirm_email", 200, "",
                               UsersByEmail(got.email)[1].username, "", token,
                               NoToken, NoToken, {"message"})
                /\ UNCHANGED <<nextUserId, now, issued>>
    /\ UNCHANGED <<contactVars, calls>>

\* Login: 401 for an unknown username or a wrong password, 401 for an
\* unconfirmed user, else a new token pair whose refresh token is stored
Login(username, password) ==
    /\ LET rows == UsersByUsername(username)
       IN  IF rows = <<>> \/ ~verify_password(password, rows[1].hashed_password)
           THEN Fail("login", 401, "Invalid username or password",
                     username, password, NoToken)
           ELSE IF ~rows[1].confirmed
           THEN Fail("login", 401, "Email is not confirmed",
                     username, password, NoToken)
           ELSE LET access == create_access_token(username)
                    refresh == create_refresh_token(username)
                IN  /\ users' = RefreshTokenRows(rows[1].id, refresh)
                    /\ issued' = issued \cup {access, refresh}
                    /\ ares' = AuthResult("login", 200, "", username, password,
                                   NoToken, access, refresh, TokenKeys)
                    /\ UNCHANGED <<nextUserId, now>>
    /\ UNCHANGED <<contactVars, calls>>

\* Refresh: 401 when verify_refresh_token returns None, else a new token
\* pair whose refresh token replaces the stored one; an exception of
\* verify_refresh_token is answered 500
Refresh(token) ==
    /\ LET got == verify_refresh_token(token)
       IN  IF got.kind = "error"
           THEN Fail("refresh", 500, "Internal Server Error", "", "", token)
           ELSE IF got.kind = "None"
           THEN Fail("refresh", 401, "Invalid or expired refresh token",
                     "", "", token)
           ELSE LET username == UsersById(got.id)[1].username
                    access == create_access_token(username)
                    refresh == create_refresh_token(username)
                IN  /\ users' = RefreshTokenRows(got.id, refresh)
                    /\ issued' = issued \cup {access, refresh}
                    /\ ares' = AuthResult("refresh", 200, "", username, "",
                                   token, access, refresh, TokenKeys)
                    /\ UNCHANGED <<nextUserId, now>>
    /\ UNCHANGED <<contactVars, calls>>

\* Logout: clear the stored refresh token of the current user
Logout(token) ==
    /\ LET got == get_current_user(token)
       IN  IF got.kind = "KeyError"
           THEN Fail("logout", 500, "Internal Server Error", "", "", token)
           ELSE IF got.kind = "401"
           THEN Fail("logout", 401, "Could not validate credentials",
                     "", "", token)
           ELSE /\ users' = RefreshTokenRows(got.id, NoToken)
                /\ ares' = AuthResult("logout", 200, "",
                               UsersById(got.id)[1].username, "", token,
                               NoToken, NoToken, {"message"})
                /\ UNCHANGED <<nextUserId, now, issued>>
    /\ UNCHANGED <<contactVars, calls>>

\* a second passes
Tick ==
    /\ now < MaxClock
    /\ now' = now + 1
    /\ UNCHANGED <<users, nextUserId, issued, ares>>
    /\ UNCHANGED <<contactVars, calls>>

ContactsIdle ==
    /\ contacts = <<>>
    /\ nextContactId = 1
    /\ cres = NoContactResult
    /\ today = AuthToday

InitAuth == AuthIdle /\ ContactsIdle

\* the two accounts of the session flow
SessionBodies ==
    {UserCreate("u1", "m1", "p1", "admin"), UserCreate("u2", "m2", "p2", "user")}

NextAuth ==
    \/ \E body \in SessionBodies, salt \in {"s1"} : Register(body, salt)
    \/ \E token \in Presentable : ConfirmEmail(token)
    \/ \E username \in Usernames, password \in Passwords : Login(username, password)
    \/ \E token \in Presentable : Refresh(token)
    \/ \E token \in Presentable : Logout(token)
    \/ Tick

SpecAuth == InitAuth /\ [][NextAuth]_vars

\* registrations with every combination of username, e-mail and role
RegisterBodies ==
    {UserCreate(u, e, "p1", r) :
        u \in Usernames, e \in UserEmails, r \in UserRole \ {"moderator"}}

NextRegister == \E body \in RegisterBodies, salt \in Salts : Register(body, salt)

SpecRegister == InitAuth /\ [][NextRegister]_vars

(***************************************************************************)
(* Current-user resolution and the role gates, in front of an operation    *)
(* for moderators (a read) and one for admins (the avatar update).         *)
(***************************************************************************)
\* get_current_moderator_user: the role passes the gate
get_current_moderator_user(current_user) ==
    ~(current_user.role \notin {"moderator", "admin"})

\* a slip: the admin gate asks for the moderator role
get_current_admin_user_Moderator(current_user) ==
    ~(current_user.role # "moderator")

\* get_current_admin_user: the role passes the gate
get_current_admin_user(current_user) ==
    ~(current_user.role # "admin")

\* the table after UserRepository.update_avatar_url(email, url), for the
\* e-mail of a stored user
AvatarRows(email, url) ==
    [i \in 1..Len(users) |->
        IF users[i].email = email
        THEN [users[i] EXCEPT !.avatar = url] ELSE users[i]]

AvatarUrls == {<<"cloud", "1">>, <<"cloud", "2">>}

\* the dependency get_current_user did not return a user: 401, or the
\* uncaught KeyError answered 500
Unresolved(op, token, got) ==
    IF got.kind = "KeyError"
    THEN Fail(op, 500, "Internal Server Error", "", "", token)
    ELSE Fail(op, 401, "Could not validate credentials", "", "", token)

\* a route behind get_current_user alone: it returns the current user
CurrentUser(token) ==
    /\ LET got == get_current_user(token)
       IN  IF got.kind # "user"
           THEN Unresolved("current_user", token, got)
           ELSE /\ ares' = AuthResult("current_user", 200, "",
                               UsersById(got.id)[1].username, "", token,
                               NoToken, NoToken, ResponseUserKeys)
                /\ UNCHANGED <<users, nextUserId, now, issued>>
    /\ UNCHANGED <<contactVars, calls>>

\* a route behind the moderator gate: it returns the current user
ModeratorOperation(token) ==
    /\ LET got == get_current_user(token)
       IN  IF got.kind # "user"
           THEN Unresolved("moderator_operation", token, got)
           ELSE LET user == UsersById(got.id)[1]
                IN  IF ~get_current_moderator_user(user)
                    THEN Fail("moderator_operation", 403,
                              "Not enough permissions", user.username, "", token)
                    ELSE /\ ares' = AuthResult("moderator_operation", 200, "",
                                        user.username, "", token,
                                        NoToken, NoToken, ResponseUserKeys)
                         /\ UNCHANGED <<users, nextUserId, now, issued>>
    /\ UNCHANGED <<contactVars, calls>>

\* a route behind the admin gate: it stores a new avatar for the current user
AdminOperation(token, url) ==
    /\ LET got == get_current_user(token)
       IN  IF got.kind # "user"
           THEN Unresolved("admin_operation", token, got)
           ELSE LET user == UsersById(got.id)[1]
                IN  IF ~get_current_admin_user(user)
                    THEN Fail("admin_operation", 403,
                              "Not enough permissions", user.username, "", token)
                    ELSE /\ users' = AvatarRows(user.email, url)
                         /\ ares' = AuthResult("admin_operation", 200, "",
                                        user.username, "", token,
                                        NoToken, NoToken, ResponseUserKeys)
                         /\ UNCHANGED <<nextUserId, now, issued>>
    /\ UNCHANGED <<contactVars, calls>>

\* one account of each role; the admin's username is its e-mail address
GateBodies ==
    {UserCreate("u1", "m1", "p1", "user"),
     UserCreate("u2", "m2", "p1", "moderator"),
     UserCreate("m3", "m3", "p1", "admin")}

\* an access token whose account is no longer in the table
VanishedToken == Jwt("u3", 0, AccessTTL, "access")

InitGates ==
    /\ users = <<>>
    /\ nextUserId = 1
    /\ now = 0
    /\ issued = {VanishedToken}
    /\ ares = NoAuthResult
    /\ calls = [w \in Workers |-> NoCall]
    /\ ContactsIdle

NextGates ==
    \/ \E body \in GateBodies : Register(body, "s1")
    \/ \E token \in issued : ConfirmEmail(token)
    \/ \E body \in GateBodies : Login(body.username, body.password)
    \/ \E token \in Presentable : CurrentUser(token)
    \/ \E token \in Presentable : ModeratorOperation(token)
    \/ \E token \in Presentable : AdminOperation(token, <<"cloud", "1">>)

SpecGates == InitGates /\ [][NextGates]_vars

(***************************************************************************)
(* Bearer tokens of every kind presented to get_current_user and to the    *)
(* refresh route, while the clock runs.                                    *)
(***************************************************************************)
\* two accounts; the first one's username is its e-mail address
BearerBodies ==
    {UserCreate("m1", "m1", "p1", "admin"), UserCreate("u2", "m2", "p2", "user")}

NextBearer ==
    \/ \E body \in BearerBodies : Register(body, "s1")
    \/ \E token \in issued : ConfirmEmail(token)
    \/ \E body \in BearerBodies : Login(body.username, body.password)
    \/ \E token \in Presentable : CurrentUser(token)
    \/ \E token \in Presentable : Refresh(token)
    \/ Tick

SpecBearer == InitGates /\ [][NextBearer]_vars

(***************************************************************************)
(* The user directory: the methods of UserRepository called directly.      *)
(***************************************************************************)
\* the outcome of a call: its arguments, the rows its lookup read, and what
\* it returned or raised
RepoResult(op, user_id, email, found, outcome) ==
    [op |-> op, user_id |-> user_id, email |-> email,
     password |-> get_password_hash("", ""), token |-> NoToken,
     url |-> <<"", "">>, found |-> found, outcome |-> outcome]

\* create_user: add the row and commit; the unique columns refuse a taken
\* username or e-mail
create_user(body, avatar) ==
    /\ IF UserUniqueOk(body.username, body.email)
       THEN /\ nextUserId <= MaxUsers
            /\ users' = Append(users, NewUser(nextUserId, body, avatar))
            /\ nextUserId' = nextUserId + 1
            /\ ares' = RepoResult("create_user", nextUserId, body.email,
                           <<>>, "user")
       ELSE /\ ares' = RepoResult("create_user", 0, body.email,
                           <<>>, "IntegrityError")
            /\ UNCHANGED <<users, nextUserId>>
    /\ UNCHANGED <<now, issued>>
    /\ UNCHANGED <<contactVars, calls>>

\* the table after UserRepository.reset_password(user_id, password)
PasswordRows(user_id, password) ==
    [i \in 1..Len(users) |->
        IF users[i].id = user_id
        THEN [users[i] EXCEPT !.hashed_password = password] ELSE users[i]]

\* reset_password: if the user exists, overwrite the digest and commit
reset_password(user_id, password) ==
    /\ LET user == UsersById(user_id)
       IN  /\ users' = IF user # <<>> THEN PasswordRows(user_id, password)
                       ELSE users
           /\ ares' = [RepoResult("reset_password", user_id, "", user,
                              IF user # <<>> THEN "user" ELSE "None")
                          EXCEPT !.password = password]
    /\ UNCHANGED <<nextUserId, now, issued>>
    /\ UNCHANGED <<contactVars, calls>>

\* refresh_token: if the user exists, overwrite the stored token and commit
refresh_token(user_id, token) ==
    /\ LET user == UsersById(user_id)
       IN  /\ users' = IF user # <<>> THEN RefreshTokenRows(user_id, token)
                       ELSE users
           /\ ares' = [RepoResult("refresh_token", user_id, "", user,
                              IF user # <<>> THEN "user" ELSE "None")
                          EXCEPT !.token = token]
    /\ UNCHANGED <<nextUserId, now, issued>>
    /\ UNCHANGED <<contactVars, calls>>

\* confirmed_email: user.confirmed = True on the looked-up user, with no
\* test for None
confirmed_email(email) ==
    /\ LET user == UsersByEmail(email)
       IN  /\ users' = IF user # <<>> THEN ConfirmedEmailRows(email) ELSE users
           /\ ares' = RepoResult("confirmed_email", 0, email, user,
                          IF user # <<>> THEN "None" ELSE "AttributeError")
    /\ UNCHANGED <<nextUserId, now, issued>>
    /\ UNCHANGED <<contactVars, calls>>

\* update_avatar_url: user.avatar = url on the looked-up user, with no test
\* for None
update_avatar_url(email, url) ==
    /\ LET user == UsersByEmail(email)
       IN  /\ users' = IF user # <<>> THEN AvatarRows(email, url) ELSE users
           /\ ares' = [RepoResult("update_avatar_url", 0, email, user,
                              IF user # <<>> THEN "user" ELSE "AttributeError")
                          EXCEPT !.url = url]
    /\ UNCHANGED <<nextUserId, now, issued>>
    /\ UNCHANGED <<contactVars, calls>>

\* two registrations with their digests, and the arguments of the calls
DirectoryBodies ==
    {UserCreate("u1", "m1", get_password_hash("p1", "s1"), "user"),
     UserCreate("u2", "m2", get_password_hash("p2", "s1"), "admin")}

DirectoryIds == 1..(MaxUsers + 1)
DirectoryTokens == {NoToken, Jwt("u1", 0, RefreshTTL, "refresh")}

NextDirectory ==
    \/ \E body \in DirectoryBodies : create_user(body, Avatar(body.email))
    \/ \E user_id \in DirectoryIds :
          reset_password(user_id, get_password_hash("p2", "s2"))
    \/ \E user_id \in DirectoryIds, token \in DirectoryTokens :
          refresh_token(user_id, token)
    \/ \E email \in UserEmails : confirmed_email(email)
    \/ \E email \in UserEmails, url \in AvatarUrls : update_avatar_url(email, url)

SpecDirectory == InitAuth /\ [][NextDirectory]_vars

(***************************************************************************)
(* Refresh requests served side by side.  A request has two storage calls, *)
(* the lookup of verify_refresh_token and the commit of                    *)
(* UserRepository.refresh_token; another worker can run between them.      *)
(***************************************************************************)
\* the presented token is the stored refresh token of the user it names
IsStoredToken(token) ==
    \E u \in Range(users) : u.username = token.sub /\ u.refresh_token = token

\* the writes of new refresh tokens committed so far
Writes == Cardinality({w \in Workers : calls[w].status = 200})

\* the lookup: the request ends with 401 or with the uncaught exception,
\* or goes on with the user found
RefreshValidate(w, token) ==
    LET got == verify_refresh_token(token)
        call == [NoCall EXCEPT !.presented = token,
                               !.stored = IsStoredToken(token),
                               !.writes_before = Writes]
    IN  /\ calls' = [calls EXCEPT ![w] =
              IF got.kind = "error"
              THEN [call EXCEPT !.pc = "done", !.status = 500]
              ELSE IF got.kind = "None"
              THEN [call EXCEPT !.pc = "done", !.status = 401]
              ELSE [call EXCEPT !.pc = "validated", !.user_id = got.id]]
        /\ UNCHANGED <<users, issued>>

\* the commit: a new pair is signed and its refresh token stored
RefreshWrite(w) ==
    LET username == UsersById(calls[w].user_id)[1].username
        access == create_access_token(username)
        refresh == create_refresh_token(username)
    IN  /\ users' = RefreshTokenRows(calls[w].user_id, refresh)
        /\ issued' = issued \cup {access, refresh}
        /\ calls' = [calls EXCEPT ![w] =
              [@ EXCEPT !.pc = "done", !.status = 200,
                        !.access_token = access, !.refresh_token = refresh,
                        !.order = Writes + 1]]

\* the next storage call of the refresh request of worker w
RefreshStep(w, token) ==
    /\ calls[w].pc # "done"
    /\ IF calls[w].pc = "idle"
       THEN RefreshValidate(w, token)
       ELSE token = calls[w].presented /\ RefreshWrite(w)
    /\ UNCHANGED <<nextUserId, now, ares>>
    /\ UNCHANGED contactVars

\* the account whose token the two workers are given
RaceBodies == {UserCreate("u1", "m1", "p1", "user")}

NextRace ==
    \/ \E body \in RaceBodies : Register(body, "s1")
    \/ \E token \in issued : ConfirmEmail(token)
    \/ \E body \in RaceBodies : Login(body.username, body.password)
    \/ \E w \in Workers, token \in Presentable : RefreshStep(w, token)
    \/ Tick

SpecRace == InitAuth /\ [][NextRace]_vars

(***************************************************************************)
(* Properties of the contact book                                          *)
(***************************************************************************)
\* (month, day) a is not after (month, day) b in the calendar
DateLeq(a, b) == a.m < b.m \/ (a.m = b.m /\ a.d <= b.d)

\* the ids of the caller's own contacts among the returned rows
OwnerReturnedIds ==
    {cres.rows[i].id :
        i \in {j \in 1..Len(cres.rows) : cres.rows[j].user_id = cres.user}}

\* C1: contact isolation.  Every row a contact operation returns belongs
\* to the user it was called for, and the operation leaves every contact
\* of every other user in the table, unchanged.
C1_Isolation ==
    [][/\ \A i \in 1..Len(cres'.rows) : cres'.rows[i].user_id = cres'.user
       /\ \A c \in Range(contacts) :
             c.user_id # cres'.user => c \in Range(contacts')]_vars

\* C2: contact e-mail uniqueness is per owner.  create_contact fails and
\* stores nothing when the owner already has a contact with the e-mail,
\* and succeeds when the owner has none, whoever else has one.
C2_PerOwnerEmail ==
    [][cres'.op = "create_contact" =>
         IF \E c \in Range(contacts) :
                c.email = cres'.email /\ c.user_id = cres'.user
         THEN cres'.status = "IntegrityError" /\ contacts' = contacts
         ELSE /\ cres'.status = "ok"
              /\ contacts' = Append(contacts, cres'.rows[1])
              /\ cres'.rows[1].email = cres'.email
              /\ cres'.rows[1].user_id = cres'.user]_vars

\* C3: same-year window.  When today + days lies in today's year, the
\* caller's contacts that are returned are exactly those whose birthday
\* (month, day) lies in [today, target], both ends included.
C3_SameYearWindow ==
    (cres.op = "get_upcoming_birthdays" /\ cres.target.y = today.y) =>
        OwnerReturnedIds =
            {c.id : c \in {x \in Range(contacts) :
                /\ x.user_id = cres.user
                /\ DateLeq(today, x.birthday)
                /\ DateLeq(x.birthday, cres.target)}}

\* C4: year-wrap window.  When today + days (days under a year) lies in
\* the next year, the caller's contacts that are returned are exactly
\* those whose birthday lies in [today, Dec 31] or in [Jan 1, target].
C4_YearWrapWindow ==
    (cres.op = "get_upcoming_birthdays" /\ cres.target.y = today.y + 1) =>
        OwnerReturnedIds =
            {c.id : c \in {x \in Range(contacts) :
                /\ x.user_id = cres.user
                /\ (DateLeq(today, x.birthday) \/ DateLeq(x.birthday, cres.target))}}

\* the example of C4: on 12-28 with a window of 7 days, the caller's
\* contact born on 01-02 is returned and the one born on 06-01 is not
C4_Witness ==
    /\ cres.op = "get_upcoming_birthdays"
    /\ today = [y |-> 2024, m |-> 12, d |-> 28]
    /\ cres.target = [y |-> 2025, m |-> 1, d |-> 4]
    /\ cres.user = 1
    /\ \E c \in Range(contacts) :
          /\ c.user_id = 1 /\ c.birthday = [m |-> 1, d |-> 2]
          /\ c.id \in OwnerReturnedIds
    /\ \E c \in Range(contacts) :
          /\ c.user_id = 1 /\ c.birthday = [m |-> 6, d |-> 1]
          /\ c.id \notin OwnerReturnedIds

(***************************************************************************)
(* Properties of the session flow                                          *)
(***************************************************************************)
\* the step is the serving of a request
Served(op) == ares' # ares /\ ares'.op = op

\* the user of that name exists and this is the password it registered
RightPassword(username, password) ==
    \E u \in Range(users) :
        u.username = username /\ u.hashed_password.plain = password

\* what C6 asks of a refresh token that is accepted
RefreshAcceptable(token) ==
    /\ token.kind = "jwt" /\ token.sig = "ok"
    /\ ~(token.exp < now)
    /\ token.token_type = "refresh"
    /\ \E u \in Range(users) :
          u.username = token.sub /\ u.refresh_token = token

\* With User bound to the pydantic schema in services/auth.py, the lookup of
\* verify_refresh_token raises for every token that passes the decoding and
\* the type test, so no refresh call is answered 200.
NoRefreshSucceeds == ~(ares.op = "refresh" /\ ares.status = 200)

\* C6: refresh acceptance.  A refresh call succeeds only for a token that
\* is signed, well-formed, unexpired, of type refresh, and equal to the
\* stored refresh token of the user it names; every other call is answered
\* 401 "Invalid or expired refresh token" and changes no stored token.
C6_RefreshAcceptance ==
    [][Served("refresh") =>
         /\ ares'.status = 200 => RefreshAcceptable(ares'.presented)
         /\ ~RefreshAcceptable(ares'.presented) =>
               /\ ares'.status = 401
               /\ ares'.detail = "Invalid or expired refresh token"
               /\ users' = users]_vars

\* C7: login of an unconfirmed user.  With the right username and
\* password it is answered 401 "Email is not confirmed", returns no token
\* and changes nothing; a user is stored unconfirmed and only an e-mail
\* confirmation for that user's address makes it confirmed.
C7_UnconfirmedLogin ==
    [][/\ (/\ Served("login")
           /\ \E u \in Range(users) :
                 /\ u.username = ares'.username
                 /\ u.hashed_password.plain = ares'.password
                 /\ ~u.confirmed)
          => /\ ares'.status = 401
             /\ ares'.detail = "Email is not confirmed"
             /\ ares'.access_token = NoToken
             /\ ares'.refresh_token = NoToken
             /\ users' = users
             /\ issued' = issued
       /\ Len(users') > Len(users) => ~users'[Len(users')].confirmed
       /\ \A i \in 1..Len(users) :
             users'[i].confirmed # users[i].confirmed =>
                 /\ Served("confirm_email")
                 /\ ares'.presented.sub = users[i].email
                 /\ users'[i].confirmed]_vars

C7_Witness ==
    /\ ares.op = "login"
    /\ ares.status = 401
    /\ ares.detail = "Email is not confirmed"
    /\ \E u \in Range(users) :
          /\ u.username = ares.username
          /\ u.hashed_password.plain = ares.password
          /\ ~u.confirmed

\* C8: login enumeration resistance.  A login with an unknown username
\* and a login with a known username and a wrong password get the same
\* response, 401 "Invalid username or password", whether or not the user
\* is confirmed, and change nothing.
C8_EnumerationResistance ==
    [][(Served("login") /\ ~RightPassword(ares'.username, ares'.password)) =>
          /\ ares'.status = 401
          /\ ares'.detail = "Invalid username or password"
          /\ ares'.keys = {"detail"}
          /\ ares'.access_token = NoToken
          /\ ares'.refresh_token = NoToken
          /\ users' = users
          /\ issued' = issued
          /\ nextUserId' = nextUserId]_vars

\* a known, unconfirmed user with a wrong password is answered like an
\* unknown user
C8_Witness ==
    /\ ares.op = "login"
    /\ ares.status = 401
    /\ ares.detail = "Invalid username or password"
    /\ \E u \in Range(users) :
          /\ u.username = ares.username
          /\ u.hashed_password.plain # ares.password
          /\ ~u.confirmed
    /\ \E name \in Usernames : UsersByUsername(name) = <<>>

\* C9: successful login.  A confirmed user with the right password gets
\* an access token, a refresh token and a token type, the stored refresh
\* token is the returned one, and a refresh call presenting it next,
\* before it expires, succeeds.
C9_LoginThenRefresh ==
    [][/\ (/\ Served("login")
           /\ \E u \in Range(users) :
                 /\ u.username = ares'.username
                 /\ u.hashed_password.plain = ares'.password
                 /\ u.confirmed)
          => /\ ares'.status = 200
             /\ ares'.keys = TokenKeys
             /\ ares'.access_token # NoToken
             /\ ares'.refresh_token # NoToken
             /\ \E u \in Range(users') :
                   /\ u.username = ares'.username
                   /\ u.refresh_token = ares'.refresh_token
       /\ (/\ ares.op = "login" /\ ares.status = 200
           /\ Served("refresh")
           /\ ares'.presented = ares.refresh_token
           /\ ~(ares.refresh_token.exp < now))
          => ares'.status = 200]_vars

\* C10: registration uniqueness.  No two users share a username or an
\* e-mail; a registration with a taken e-mail or username is answered 409
\* (for the e-mail: "User with this email already exists") and stores
\* nothing; a successful one stores the user and returns it without the
\* password hash.
C10_RegistrationUnique ==
    /\ [](\A i, j \in 1..Len(users) :
            i # j => /\ users[i].username # users[j].username
                     /\ users[i].email # users[j].email)
    /\ [][Served("register") =>
            /\ UsersByEmail(ares'.email) # <<>> =>
                  /\ ares'.status = 409
                  /\ ares'.detail = "User with this email already exists"
                  /\ users' = users
            /\ UsersByUsername(ares'.username) # <<>> =>
                  /\ ares'.status = 409
                  /\ users' = users
            /\ (UsersByEmail(ares'.email) = <<>>
                  /\ UsersByUsername(ares'.username) = <<>>) =>
                  /\ ares'.status = 201
                  /\ "hashed_password" \notin ares'.keys
                  /\ "password" \notin ares'.keys
                  /\ Len(users') = Len(users) + 1
                  /\ users'[Len(users')].username = ares'.username
                  /\ users'[Len(users')].email = ares'.email
                  /\ SubSeq(users', 1, Len(users)) = users]_vars

\* a repeated registration was refused and two users are stored
C10_Witness ==
    /\ ares.op = "register"
    /\ ares.status = 409
    /\ ares.detail = "User with this email already exists"
    /\ Len(users) = 2

(***************************************************************************)
(* Properties of the role gates and of current-user resolution             *)
(***************************************************************************)
\* the user an access token resolves to, for a token get_current_user accepts
Bearer(token) == UsersByUsername(token.sub)[1]

\* the token is one get_current_user resolves to a user
Authenticated(token) == get_current_user(token).kind = "user"

\* C11: role gates.  For an authenticated user the admin gate lets the
\* request through exactly when the role is admin, the moderator gate
\* exactly when it is moderator or admin; otherwise the answer is 403
\* "Not enough permissions" and the operation has changed nothing.
C11_RoleGates ==
    [][/\ (Served("admin_operation") /\ Authenticated(ares'.presented)) =>
             IF Bearer(ares'.presented).role = "admin"
             THEN ares'.status = 200
             ELSE /\ ares'.status = 403
                  /\ ares'.detail = "Not enough permissions"
                  /\ users' = users
       /\ (Served("moderator_operation") /\ Authenticated(ares'.presented)) =>
             IF Bearer(ares'.presented).role \in {"moderator", "admin"}
             THEN ares'.status = 200
             ELSE /\ ares'.status = 403
                  /\ ares'.detail = "Not enough permissions"
                  /\ users' = users]_vars

\* a moderator was let through the moderator gate and stopped at the admin
\* gate
C11_Witness ==
    /\ ares.op = "admin_operation"
    /\ ares.status = 403
    /\ \E u \in Range(users) :
          /\ u.username = ares.username
          /\ u.role = "moderator"
          /\ get_current_moderator_user(u)

\* C12: current-user resolution never throws.  Whatever bearer token is
\* presented, get_current_user returns the user named by a valid access
\* token or fails with 401; there is no other outcome.
C12_CurrentUserNeverThrows ==
    [][Served("current_user") =>
          /\ ares'.status \in {200, 401}
          /\ ares'.status = 200 =>
                /\ JwtDecodes(ares'.presented)
                /\ ares'.presented.token_type = "access"
                /\ ares'.username = ares'.presented.sub]_vars

\* a token signed by create_email_token: no token_type claim
IsEmailToken(token) ==
    token.kind = "jwt" /\ token.sig = "ok" /\ token.token_type = "absent"

\* C16: token-kind separation.  A token made by create_email_token is
\* never accepted as an access token by get_current_user nor as a refresh
\* token by verify_refresh_token, whatever its subject and the state, and a
\* request presenting one gets no user, no token pair and changes nothing.
C16_TokenKindSeparation ==
    /\ [](\A t \in issued :
            IsEmailToken(t) =>
                /\ get_current_user(t).kind # "user"
                /\ verify_refresh_token(t).kind # "user")
    /\ [][((Served("current_user") \/ Served("refresh"))
              /\ IsEmailToken(ares'.presented)) =>
            /\ ares'.status # 200
            /\ ares'.access_token = NoToken
            /\ ares'.refresh_token = NoToken
            /\ users' = users
            /\ issued' = issued]_vars

\* an unexpired e-mail token whose subject is the username of a stored,
\* confirmed user was presented as a bearer token and got no user
C16_Witness ==
    /\ ares.op = "current_user"
    /\ IsEmailToken(ares.presented)
    /\ JwtDecodes(ares.presented)
    /\ ares.status # 200
    /\ \E u \in Range(users) : u.username = ares.presented.sub /\ u.confirmed

(***************************************************************************)
(* Properties of the user directory                                        *)
(***************************************************************************)
\* C13: e-mail confirmation is idempotent and one-way.  Confirming the
\* e-mail of a stored user sets confirmed and nothing else, confirming it
\* again leaves the whole record as it was, and no call of the directory
\* takes a confirmed user back to unconfirmed.
C13_ConfirmOnceOneWay ==
    [][/\ (Served("confirmed_email") /\ ares'.found # <<>>) =>
             /\ Len(users') = Len(users)
             /\ \A i \in 1..Len(users) :
                   users'[i] = IF users[i].email = ares'.email
                               THEN [users[i] EXCEPT !.confirmed = TRUE]
                               ELSE users[i]
             /\ ares'.found[1].confirmed => users' = users
       /\ \A i \in 1..Len(users) :
             users[i].confirmed => (Len(users') >= i /\ users'[i].confirmed)]_vars

\* the e-mail of a user that was already confirmed has been confirmed
\* again, after its avatar and password had been changed
C13_Witness ==
    /\ ares.op = "confirmed_email"
    /\ ares.found # <<>>
    /\ ares.found[1].confirmed
    /\ ares.found[1].avatar \in AvatarUrls
    /\ ares.found[1].hashed_password.salt = "s2"
    /\ ares.found[1] \in Range(users)

\* the table with one field of the rows selected by Targets overwritten
WithField(Targets(_), Put(_)) ==
    [i \in 1..Len(users) |-> IF Targets(users[i]) THEN Put(users[i]) ELSE users[i]]

\* C15: single-record directory mutations.  reset_password, refresh_token
\* and update_avatar_url change the one named field of the one targeted
\* user and nothing else; when the target does not exist the call changes
\* nothing and returns None instead of failing.
C15_SingleRecordMutation ==
    [][/\ Served("reset_password") =>
             IF UsersById(ares'.user_id) # <<>>
             THEN /\ ares'.outcome = "user"
                  /\ users' = WithField(LAMBDA u : u.id = ares'.user_id,
                                 LAMBDA u : [u EXCEPT !.hashed_password = ares'.password])
             ELSE ares'.outcome = "None" /\ users' = users
       /\ Served("refresh_token") =>
             IF UsersById(ares'.user_id) # <<>>
             THEN /\ ares'.outcome = "user"
                  /\ users' = WithField(LAMBDA u : u.id = ares'.user_id,
                                 LAMBDA u : [u EXCEPT !.refresh_token = ares'.token])
             ELSE ares'.outcome = "None" /\ users' = users
       /\ Served("update_avatar_url") =>
             IF UsersByEmail(ares'.email) # <<>>
             THEN /\ ares'.outcome = "user"
                  /\ users' = WithField(LAMBDA u : u.email = ares'.email,
                                 LAMBDA u : [u EXCEPT !.avatar = ares'.url])
             ELSE ares'.outcome = "None" /\ users' = users]_vars

(***************************************************************************)
(* Properties of refresh requests served side by side                      *)
(***************************************************************************)
\* both workers have finished a refresh request for the same token, which
\* was the stored one when each looked it up, and neither had written yet
RacedOnStoredToken(w1, w2) ==
    /\ w1 # w2
    /\ calls[w1].pc = "done" /\ calls[w2].pc = "done"
    /\ calls[w1].presented = calls[w2].presented
    /\ JwtDecodes(calls[w1].presented)
    /\ calls[w1].presented.token_type = "refresh"
    /\ calls[w1].stored /\ calls[w2].stored
    /\ calls[w1].writes_before = 0 /\ calls[w2].writes_before = 0

\* C14: unprotected concurrent rotation.  Two refresh requests for the
\* stored token that both validate before either writes both succeed with
\* different pairs; the stored token is the one written last, and only it
\* is accepted afterwards.
C14_LastWriteWins ==
    \A w1, w2 \in Workers :
        (RacedOnStoredToken(w1, w2) /\ calls[w1].order <= calls[w2].order) =>
            /\ calls[w1].status = 200 /\ calls[w2].status = 200
            /\ calls[w1].refresh_token # calls[w2].refresh_token
            /\ calls[w1].access_token # NoToken /\ calls[w2].access_token # NoToken
            /\ IsStoredToken(calls[w2].refresh_token)
            /\ verify_refresh_token(calls[w2].refresh_token).kind = "user"
            /\ verify_refresh_token(calls[w1].refresh_token).kind = "None"

====
